---------------------------- MODULE Spec2Model ----------------------------
(***************************************************************************)
(* State-machine model of the Sudoku solver in src/solver.py: the Square   *)
(* and SudokuBoard classes and the solve() loop.  One action per step of   *)
(* solve(): the per-square sweep, find_isolation_lines per cube,           *)
(* find_number_pairs_in_cube per cube, and the end-of-round bookkeeping.   *)
(***************************************************************************)
EXTENDS Integers, Sequences, FiniteSets, TLC

(***************************************************************************)
(* Bounds of the input family.                                             *)
(***************************************************************************)
\* Inputs include the canonical puzzle with its first k clues (raster order)
\* removed, for k in 0..MaxRemoved.
MaxRemoved == 2
\* Inputs include the solved grid with its first k squares (raster order)
\* blanked, for k in 0..MaxBlanked.
MaxBlanked == 2

(***************************************************************************)
(* Grids.                                                                  *)
(***************************************************************************)
Idx == 0..8                  \* range(9)
Digits == 1..9               \* set(range(1,10))
Pos == Idx \X Idx            \* <<r, c>>: the Square at rows[r][c]

\* The board of src/test.py, TestSudobuBoard._input (whitespace removed as
\* load_board does).
CanonicalRows ==
  << <<1,0,4,0,0,0,3,0,6>>,
     <<8,0,9,0,3,0,5,7,0>>,
     <<0,0,0,0,7,0,1,0,0>>,
     <<4,2,6,0,0,0,0,0,3>>,
     <<0,8,7,0,0,6,0,1,2>>,
     <<3,0,0,0,0,0,0,0,9>>,
     <<2,4,1,9,0,0,0,3,0>>,
     <<0,0,0,2,0,0,0,8,0>>,
     <<7,0,0,5,0,3,0,0,0>> >>

\* src/test.py, TestSudobuBoard._solved.
SolvedRows ==
  << <<1,7,4,8,9,5,3,2,6>>,
     <<8,6,9,1,3,2,5,7,4>>,
     <<5,3,2,6,7,4,1,9,8>>,
     <<4,2,6,7,1,9,8,5,3>>,
     <<9,8,7,3,5,6,4,1,2>>,
     <<3,1,5,4,2,8,7,6,9>>,
     <<2,4,1,9,8,7,6,3,5>>,
     <<6,5,3,2,4,1,9,8,7>>,
     <<7,9,8,5,6,3,2,4,1>> >>

\* A second valid grid: it agrees with CanonicalRows on every clue but the
\* first two (the 1 at <<0,0>> stays, the 4 at <<0,2>> becomes 2).
SecondRows ==
  << <<1,7,2,8,4,5,3,9,6>>,
     <<8,6,9,1,3,2,5,7,4>>,
     <<5,3,4,6,7,9,1,2,8>>,
     <<4,2,6,7,9,1,8,5,3>>,
     <<9,8,7,3,5,6,4,1,2>>,
     <<3,1,5,4,2,8,7,6,9>>,
     <<2,4,1,9,8,7,6,3,5>>,
     <<6,5,3,2,1,4,9,8,7>>,
     <<7,9,8,5,6,3,2,4,1>> >>

\* A grid of digits as a function on Pos.
GridOf(rows) == [p \in Pos |-> rows[p[1] + 1][p[2] + 1]]

Canonical == GridOf(CanonicalRows)
Solution == GridOf(SolvedRows)
Second == GridOf(SecondRows)

\* Raster position of a square, 0..80.
Raster(p) == 9 * p[1] + p[2]

\* The clues of the canonical puzzle before p in raster order.
CluesBefore(p) == Cardinality({q \in Pos : Canonical[q] # 0 /\ Raster(q) < Raster(p)})

\* Canonical puzzle with its first k clues removed.
Removed(k) == [p \in Pos |-> IF CluesBefore(p) < k THEN 0 ELSE Canonical[p]]

\* Solved grid with its first k squares blanked.
Blanked(k) == [p \in Pos |-> IF Raster(p) < k THEN 0 ELSE Solution[p]]

\* The grid SudokuBoard(None) builds (src/solver.py:52-53).
Blank == [p \in Pos |-> 0]

\* Solved grid with the four corners of the rectangle rows 3,4 x cols 4,7
\* blanked: the digits 1,5 / 5,1 there can be swapped, so two completions.
Rectangle == [p \in Pos |-> IF p[1] \in {3, 4} /\ p[2] \in {4, 7} THEN 0 ELSE Solution[p]]
Swapped == [p \in Pos |-> IF p[1] \in {3, 4} /\ p[2] \in {4, 7}
                          THEN Solution[<<7 - p[1], p[2]>>] ELSE Solution[p]]

\* A full grid whose rows and columns are permutations of 1..9 and whose
\* boxes are not (a cyclic Latin square).
Latin == [p \in Pos |-> ((p[1] + p[2]) % 9) + 1]

\* The canonical puzzle with a second 3 put in row 0 (a contradictory grid).
Contradictory == [Canonical EXCEPT ![<<0, 7>>] = 3]

Inputs ==
  {Removed(k) : k \in 0..MaxRemoved} \cup {Blanked(k) : k \in 0..MaxBlanked}
  \cup {Blank, Rectangle, Latin, Contradictory}

(***************************************************************************)
(* class Square                                                            *)
(***************************************************************************)
\* Square.__init__
Square(num) == [value |-> num, options |-> IF num # 0 THEN {} ELSE Digits]

\* Square.__nonzero__
nonzero(sq) == sq.value # 0

\* Square.check: the square after the call.
check(sq) ==
  IF Cardinality(sq.options) = 1
  THEN [value |-> CHOOSE d \in sq.options : TRUE, options |-> {}]
  ELSE sq

\* Square.check: the value returned.
check_returns(sq) == Cardinality(sq.options) = 1

\* Square.set: the square after the call.
set(sq, options) == check([sq EXCEPT !.options = options])

\* Square.set: the value returned.
set_returns(sq, options) == check_returns([sq EXCEPT !.options = options])

\* Square.__eq__(self, other) for another Square: both have 'value'.
eq_square(sq, other) == sq.value = other.value

\* Square.__eq__(self, other) for `other` a set of options: a set has no
\* attribute 'value', so the result is self.value == other, an int compared
\* with a set, which Python evaluates to False.
eq_options(sq, options) == FALSE

(***************************************************************************)
(* class SudokuBoard.  A board is a function Pos -> Square; self.rows and  *)
(* self.cols are two indexings of the same Squares.                        *)
(***************************************************************************)
\* SudokuBoard.__init__ / load_board
load_board(grid) == [p \in Pos |-> Square(grid[p])]

\* index[i][j] for index self.rows or self.cols.
At(index, i, j) == IF index = "rows" THEN <<i, j>> ELSE <<j, i>>

\* The values in a collection of squares: set(list of Squares) hashes and
\* compares Squares by value.
Values(b, ps) == {b[p].value : p \in ps}

\* index[i] as a set of positions.
Line(index, i) == {At(index, i, j) : j \in Idx}

\* `index == self.rows` (src/solver.py:104): list equality, element by element
\* with Square.__eq__, so self.cols == self.rows when the values are symmetric.
index_eq_rows(b, index) ==
  \/ index = "rows"
  \/ \A p \in Pos : eq_square(b[At(index, p[1], p[2])], b[p])

\* SudokuBoard.get_cube: the positions of the cube, in list order.
get_cube(r, c, index) ==
  LET row_min == (r \div 3) * 3
      col_min == (c \div 3) * 3
  IN [k \in 1..9 |-> At(index, row_min + ((k - 1) \div 3), col_min + ((k - 1) % 3))]

Range(s) == {s[k] : k \in DOMAIN s}

\* Mutant of find_options_for: the options are computed anew from 1..9
\* instead of from the square's current options.
find_options_for_fresh(b, r, c, index) ==
  LET other_index == IF index_eq_rows(b, index) THEN "cols" ELSE "rows"
  IN ((Digits \ Values(b, Line(index, r)))
              \ Values(b, Line(other_index, c)))
              \ Values(b, Range(get_cube(r, c, index)))

\* Mutant of find_options_for: the other index is not looked at.
find_options_for_without_other(b, r, c, index) ==
  LET options == b[At(index, r, c)].options
  IN (options \ Values(b, Line(index, r))) \ Values(b, Range(get_cube(r, c, index)))

\* Mutant of find_options_for: the cube is not looked at.
find_options_for_without_cube(b, r, c, index) ==
  LET other_index == IF index_eq_rows(b, index) THEN "cols" ELSE "rows"
      options == b[At(index, r, c)].options
  IN (options \ Values(b, Line(index, r))) \ Values(b, Line(other_index, c))

\* SudokuBoard.find_options_for: the set returned, which is also the new
\* options of index[r][c] (the set is updated in place).
find_options_for(b, r, c, index) ==
  LET other_index == IF index_eq_rows(b, index) THEN "cols" ELSE "rows"
      options == b[At(index, r, c)].options
  IN ((options \ Values(b, Line(index, r)))
               \ Values(b, Line(other_index, c)))
               \ Values(b, Range(get_cube(r, c, index)))

\* The board after find_options_for(r, c, index).
after_find_options_for(b, r, c, index) ==
  [b EXCEPT ![At(index, r, c)].options = find_options_for(b, r, c, index)]

\* SudokuBoard.identify_only_possibility for one related list: the options
\* of the target that no other square of the list holds.
only_in(b, target, related) ==
  b[target].options \ UNION {b[p].options : p \in related \ {target}}

\* SudokuBoard.identify_only_possibility: the set returned, {} for False.
identify_only_possibility(b, r, c) ==
  LET target == <<r, c>>
      in_row == only_in(b, target, Line("rows", r))
      in_col == only_in(b, target, Line("cols", c))
      in_cube == only_in(b, target, Range(get_cube(r, c, "rows")))
  IN IF Cardinality(in_row) = 1 THEN in_row
     ELSE IF Cardinality(in_col) = 1 THEN in_col
     ELSE IF Cardinality(in_cube) = 1 THEN in_cube
     ELSE {}


\* The first rule of the sweep (src/solver.py:278): direct elimination,
\* square.set(board.find_options_for(r, c, board.rows)).
direct_elimination(b, r, c) ==
  [b EXCEPT ![<<r, c>>] = set(@, find_options_for(b, r, c, "rows"))]

\* The second rule of the sweep (src/solver.py:281-284): hidden single,
\* square.set(option) when identify_only_possibility returns an option.
hidden_single(b, r, c) ==
  LET option == identify_only_possibility(b, r, c)
  IN IF option # {} THEN [b EXCEPT ![<<r, c>>] = set(@, option)] ELSE b

\* The body of the sweep loop of solve for one square (src/solver.py:274-284).
sweep_square(b, r, c) ==
  IF nonzero(b[<<r, c>>]) THEN b
  ELSE IF set_returns(b[<<r, c>>], find_options_for(b, r, c, "rows"))
       THEN direct_elimination(b, r, c)
       ELSE hidden_single(direct_elimination(b, r, c), r, c)

\* Mutant of remove_restricted: the square is checked before the restricted
\* options are removed, not after.
check_then_remove(b, sec_dir, selected, sec_min, restricted_options) ==
  LET outside == {At(sec_dir, p, selected) : p \in {i \in Idx : i < sec_min \/ i > sec_min + 2}}
  IN [q \in Pos |->
        IF q \in outside /\ ~nonzero(b[q])
        THEN [check(b[q]) EXCEPT !.options = @ \ restricted_options]
        ELSE b[q]]

\* Mutant of remove_restricted: the filter is off by one, i > sec_min + 1, so
\* the last square of the line inside the cube is not skipped.
remove_restricted_off_by_one(b, sec_dir, selected, sec_min, restricted_options) ==
  LET outside == {At(sec_dir, p, selected) : p \in {i \in Idx : i < sec_min \/ i > sec_min + 1}}
  IN [q \in Pos |->
        IF q \in outside /\ ~nonzero(b[q])
        THEN check([b[q] EXCEPT !.options = @ \ restricted_options])
        ELSE b[q]]

\* The second loop of SudokuBoard._update_options (src/solver.py:175-182):
\* every unsolved square of the selected line outside the cube loses the
\* restricted options and is checked.
remove_restricted(b, sec_dir, selected, sec_min, restricted_options) ==
  LET outside == {At(sec_dir, p, selected) : p \in {i \in Idx : i < sec_min \/ i > sec_min + 2}}
  IN [q \in Pos |->
        IF q \in outside /\ ~nonzero(b[q])
        THEN check([b[q] EXCEPT !.options = @ \ restricted_options])
        ELSE b[q]]

\* SudokuBoard._update_options: the board after the call.  pri_min is not
\* read by the code.
_update_options(b, pri_dir, sec_dir, selected, pri_min, sec_min) ==
  LET b1 == after_find_options_for(b, selected, sec_min, pri_dir)
      b2 == after_find_options_for(b1, selected, sec_min + 1, pri_dir)
      b3 == after_find_options_for(b2, selected, sec_min + 2, pri_dir)
      restricted_options ==
        find_options_for(b, selected, sec_min, pri_dir)
        \cup find_options_for(b1, selected, sec_min + 1, pri_dir)
        \cup find_options_for(b2, selected, sec_min + 2, pri_dir)
  IN remove_restricted(b3, sec_dir, selected, sec_min, restricted_options)

\* SudokuBoard.find_isolation_lines: the board after the call.
\* The solved_count returned is read by solve only to log.
find_isolation_lines(b, cube_r, cube_c) ==
  LET row_min == cube_r * 3
      col_min == cube_c * 3
      unsolved == {p \in (row_min..row_min + 2) \X (col_min..col_min + 2) : ~nonzero(b[p])}
      solitary_rows == {p[1] : p \in unsolved}
      solitary_cols == {p[2] : p \in unsolved}
      b1 == IF Cardinality(solitary_rows) = 1
            THEN _update_options(b, "rows", "cols",
                                 CHOOSE r \in solitary_rows : TRUE, row_min, col_min)
            ELSE b
  IN IF Cardinality(solitary_cols) = 1
     THEN _update_options(b1, "cols", "rows",
                          CHOOSE c \in solitary_cols : TRUE, col_min, row_min)
     ELSE b1

\* `square.options in options` (src/solver.py:245): list membership compares
\* the set of options with each Square of the list.
options_in(b, sq_options, options) ==
  \E k \in DOMAIN options : eq_options(b[options[k]], sq_options)

\* options.index(square) (src/solver.py:246): the first Square of the list
\* equal to square, by Square.__eq__.
index_of(b, options, square) ==
  CHOOSE k \in DOMAIN options :
    /\ eq_square(b[options[k]], b[square])
    /\ \A j \in 1..(k - 1) : ~eq_square(b[options[j]], b[square])

\* list.pop(k): the list without its k-th element.
pop_at(list, k) == [j \in 1..(Len(list) - 1) |-> IF j < k THEN list[j] ELSE list[j + 1]]

\* The first loop of find_number_pairs_in_cube (src/solver.py:241-249) from
\* the k-th square of the cube on: the list `pairs` at its end.
RECURSIVE scan_pairs(_, _, _, _, _)
scan_pairs(b, cube, k, options, pairs) ==
  IF k > Len(cube) THEN pairs
  ELSE LET square == cube[k] IN
       IF nonzero(b[square]) \/ Cardinality(b[square].options) # 2
       THEN scan_pairs(b, cube, k + 1, options, pairs)
       ELSE IF options_in(b, b[square].options, options)
       THEN LET i == index_of(b, options, square)
            IN scan_pairs(b, cube, k + 1, pop_at(options, i),
                          Append(pairs, <<square, options[i]>>))
       ELSE scan_pairs(b, cube, k + 1, Append(options, square), pairs)

\* The inner loop of the second loop (src/solver.py:254-258) from the k-th
\* square of the cube on.  remove_options is items[0].options itself, not a
\* copy: it is read anew at each square.
RECURSIVE remove_pair(_, _, _, _)
remove_pair(b, cube, k, items) ==
  IF k > Len(cube) THEN b
  ELSE LET square == cube[k]
           remove_options == b[items[1]].options
       IN IF nonzero(b[square]) \/ square = items[1] \/ square = items[2]
          THEN remove_pair([b EXCEPT ![square].options = @ \ remove_options],
                           cube, k + 1, items)
          ELSE remove_pair(b, cube, k + 1, items)

\* The second loop of find_number_pairs_in_cube (src/solver.py:252-258).
RECURSIVE remove_pairs(_, _, _, _)
remove_pairs(b, cube, pairs, n) ==
  IF n > Len(pairs) THEN b
  ELSE remove_pairs(remove_pair(b, cube, 1, pairs[n]), cube, pairs, n + 1)

\* SudokuBoard.find_number_pairs_in_cube: the board after the call.
find_number_pairs_in_cube(b, cube_r, cube_c) ==
  LET cube == get_cube(cube_r * 3, cube_c * 3, "rows")
  IN remove_pairs(b, cube, scan_pairs(b, cube, 1, <<>>, <<>>), 1)

\* SudokuBoard.check_board: the generator expression is built and dropped,
\* never iterated, so no Square.check() runs and the board is unchanged.
check_board(b) == b

\* Mutant of solved: the cubes are not looked at.
solved_without_cubes(b) ==
  LET good_set == Digits
  IN /\ \A r \in Idx : Values(b, Line("rows", r)) = good_set
     /\ \A c \in Idx : Values(b, Line("cols", c)) = good_set

\* SudokuBoard.solved
solved(b) ==
  LET good_set == Digits
  IN /\ \A r \in Idx : Values(b, Line("rows", r)) = good_set
     /\ \A c \in Idx : Values(b, Line("cols", c)) = good_set
     /\ \A r \in {0, 3, 6} : \A c \in {0, 3, 6} :
          Values(b, Range(get_cube(r, c, "rows"))) = good_set

\* Sum of f over the positions with raster index below n.
RECURSIVE SumTo(_, _)
SumTo(f, n) ==
  IF n = 0 THEN 0 ELSE f[<<(n - 1) \div 9, (n - 1) % 9>>] + SumTo(f, n - 1)

\* Mutant of get_status: total_options is assigned (=), not accumulated (+=),
\* and ends as the option count of the last square.
get_status_last_square(b) ==
  << SumTo([p \in Pos |-> IF nonzero(b[p]) THEN 1 ELSE 0], 81),
     Cardinality(b[<<8, 8>>].options) >>

\* SudokuBoard.get_status: <<num_solved_squares, num_options>>.
get_status(b) ==
  << SumTo([p \in Pos |-> IF nonzero(b[p]) THEN 1 ELSE 0], 81),
     SumTo([p \in Pos |-> Cardinality(b[p].options)], 81) >>

(***************************************************************************)
(* solve(board)                                                            *)
(***************************************************************************)
VARIABLES
  puzzle,       \* the grid the board was loaded from (never changes)
  board,        \* the SudokuBoard: Pos -> Square
  pc,           \* the loop of solve being run: "sweep", "isolation", "pairs",
                \* "end" (src/solver.py:298-312), "done" (returned)
  i,            \* the position in that loop: 0..80 in the sweep (r = i / 9,
                \* c = i % 9), 0..8 in the cube loops (cube_r = i / 3, cube_c = i % 3)
  prev_status,  \* prev_status of solve, None before the first round ends
  counter,      \* counter of solve: rounds completed
  outcome,      \* "Running"; "Solved": returned board; "Stalled": returned None
  touched       \* history: the squares whose options find_isolation_lines
                \* changed in the current round

vars == <<puzzle, board, pc, i, prev_status, counter, outcome, touched>>

None == <<>>

\* The status test of solve (src/solver.py:306).
no_progress(status, prev) == status = prev

\* Mutant of remember: prev_status is not updated.
forget(status, prev) == prev

\* The assignment prev_status = status (src/solver.py:312).
remember(status, prev) == status

Init ==
  /\ puzzle \in Inputs
  /\ board = load_board(puzzle)
  /\ pc = "sweep"
  /\ i = 0
  /\ prev_status = None
  /\ counter = 0
  /\ outcome = "Running"
  /\ touched = {}

\* One iteration of the sweep (src/solver.py:272-284).
SweepSquare ==
  /\ pc = "sweep"
  /\ board' = sweep_square(board, i \div 9, i % 9)
  /\ IF i < 80 THEN i' = i + 1 /\ pc' = pc
               ELSE i' = 0 /\ pc' = "isolation"
  /\ touched' = IF i = 0 THEN {} ELSE touched
  /\ UNCHANGED <<puzzle, prev_status, counter, outcome>>

\* One iteration of the find_isolation_lines loop (src/solver.py:286-292).
IsolationLines ==
  /\ pc = "isolation"
  /\ board' = find_isolation_lines(board, i \div 3, i % 3)
  /\ touched' = touched \cup {p \in Pos : board'[p].options # board[p].options}
  /\ IF i < 8 THEN i' = i + 1 /\ pc' = pc
              ELSE i' = 0 /\ pc' = "pairs"
  /\ UNCHANGED <<puzzle, prev_status, counter, outcome>>

\* One iteration of the find_number_pairs_in_cube loop (src/solver.py:294-296).
NumberPairs ==
  /\ pc = "pairs"
  /\ board' = find_number_pairs_in_cube(board, i \div 3, i % 3)
  /\ IF i < 8 THEN i' = i + 1 /\ pc' = pc
              ELSE i' = 0 /\ pc' = "end"
  /\ UNCHANGED <<puzzle, prev_status, counter, outcome, touched>>

\* The end of a round (src/solver.py:298-312).
EndRound ==
  /\ pc = "end"
  /\ board' = check_board(board)
  /\ counter' = counter + 1
  /\ LET status == get_status(board') IN
       IF solved(board')
       THEN outcome' = "Solved" /\ pc' = "done" /\ prev_status' = prev_status
       ELSE IF no_progress(status, prev_status)
       THEN outcome' = "Stalled" /\ pc' = "done" /\ prev_status' = prev_status
       ELSE outcome' = outcome /\ pc' = "sweep" /\ prev_status' = remember(status, prev_status)
  /\ UNCHANGED <<puzzle, i, touched>>

Next == SweepSquare \/ IsolationLines \/ NumberPairs \/ EndRound

Spec == Init /\ [][Next]_vars

\* The loop position moves on: pc or i changes while solve has not returned.
\* Every step of Next is such a step, and one is possible exactly when
\* pc # "done".
Advance ==
  /\ pc # "done"
  /\ \E q \in {"sweep", "isolation", "pairs", "end", "done"}, j \in 0..80 : pc' = q /\ i' = j

\* solve is one sequential computation with no suspension point: while it has
\* not returned, its next step is eventually taken.
FairSpec == Spec /\ WF_<<pc, i>>(Advance)

TypeOK ==
  /\ board \in [Pos -> [value : 0..9, options : SUBSET Digits]]
  /\ pc \in {"sweep", "isolation", "pairs", "end", "done"}
  /\ i \in 0..80

(***************************************************************************)
(* Vocabulary of the claims, stated without the board's own operations.    *)
(***************************************************************************)
Row(r) == {p \in Pos : p[1] = r}
Col(c) == {p \in Pos : p[2] = c}
Box(br, bc) == {p \in Pos : p[1] \div 3 = br /\ p[2] \div 3 = bc}
BoxOf(p) == Box(p[1] \div 3, p[2] \div 3)
Units == {Row(r) : r \in Idx} \cup {Col(c) : c \in Idx}
         \cup {Box(br, bc) : br \in 0..2, bc \in 0..2}

\* Each digit 1..9 is the value of exactly one square of the unit.
IsPermutation(g, unit) == \A d \in Digits : Cardinality({p \in unit : g[p] = d}) = 1

ValuesOf(b) == [p \in Pos |-> b[p].value]

AllUnitsPermutations(b) == \A unit \in Units : IsPermutation(ValuesOf(b), unit)

Unassigned(b, p) == b[p].value = 0

\* The values committed in the row, the column and the box of p.
Committed(b, p) == {b[q].value : q \in Row(p[1]) \cup Col(p[2]) \cup BoxOf(p)} \ {0}

Terminated == outcome \in {"Solved", "Stalled"}

\* Total candidate count of a board.
TotalOptions(b) == get_status(b)[2]

\* The bound on rounds named by the specification, 81 x 9.
MaxRounds == 81 * 9

\* Full grids known to be valid, and those of them that complete a puzzle.
KnownGrids == {g \in {Solution, Second, Swapped} : \A unit \in Units : IsPermutation(g, unit)}
Completions(g) == {S \in KnownGrids : \A p \in Pos : g[p] # 0 => S[p] = g[p]}

\* No two squares of a unit hold the same committed digit.
NoDuplicates(b) ==
  \A unit \in Units : \A p, q \in unit : (p # q /\ b[p].value # 0) => b[p].value # b[q].value

(***************************************************************************)
(* C1                                                                      *)
(***************************************************************************)
\* C1: whenever solve has returned the board (Solved), every row, column and
\* box of the grid holds each digit 1..9 exactly once; and in every state
\* solved() is true exactly when all 27 units are permutations of 1..9.
C1_SolvedIsValid ==
  /\ outcome = "Solved" => AllUnitsPermutations(board)
  /\ solved(board) <=> AllUnitsPermutations(board)

\* solve returned Solved after committing squares the puzzle left blank.
C1_Witness ==
  /\ outcome = "Solved"
  /\ \E p \in Pos : puzzle[p] = 0 /\ board[p].value # 0

(***************************************************************************)
(* C2                                                                      *)
(***************************************************************************)
\* C2: for every input grid solve eventually terminates, Solved or Stalled;
\* the rounds run never exceed 81 x 9, because a round that does not end the
\* loop lowers the total candidate count; and the all-blank grid ends Stalled.
C2_Terminates ==
  /\ <>Terminated
  /\ [](counter <= MaxRounds)
  /\ [](counter <= TotalOptions(load_board(puzzle)) - TotalOptions(board) + 2)
  /\ []((puzzle = Blank /\ Terminated) => outcome = "Stalled")
  /\ [](Terminated <=> pc = "done")

\* The all-blank grid has stalled, in its second round.
C2_Witness == puzzle = Blank /\ outcome = "Stalled" /\ counter = 2

(***************************************************************************)
(* C3                                                                      *)
(***************************************************************************)
\* C3: on the canonical 32-clue puzzle solve ends Solved, never Stalled, and
\* the final grid is exactly the expected completion.
C3_Canonical ==
  (puzzle = Canonical /\ pc = "done") =>
     (outcome = "Solved" /\ ValuesOf(board) = Solution)

\* solve has returned on the canonical puzzle.
C3_Witness == puzzle = Canonical /\ pc = "done" /\ counter = 3

(***************************************************************************)
(* C4                                                                      *)
(***************************************************************************)
\* C4: no step of solve adds a digit to a square's candidate set; a value is
\* committed once, from the candidates the square held, and the candidate set
\* then collapses to empty.
C4_Monotonic ==
  [][\A p \in Pos :
       /\ board'[p].options \subseteq board[p].options
       /\ board'[p].value # board[p].value =>
            /\ board[p].value = 0
            /\ board'[p].value \in board[p].options
            /\ board'[p].options = {}]_vars

\* Some square was committed by solve and some unassigned square has lost
\* candidates and keeps several.
C4_Witness ==
  /\ \E p \in Pos : puzzle[p] = 0 /\ board[p].value # 0
  /\ \E q \in Pos : Unassigned(board, q) /\ board[q].options # Digits
                    /\ Cardinality(board[q].options) > 1

(***************************************************************************)
(* C5                                                                      *)
(***************************************************************************)
\* C5: at the end of every round after the first, the total candidate count
\* is not above the previous round's, and when it is equal the round ends in
\* Stalled.
C5_Progress ==
  [][(pc = "end" /\ prev_status # None) =>
       LET status == get_status(board')
       IN /\ status[2] <= prev_status[2]
          /\ status[2] = prev_status[2] => outcome' = "Stalled"]_vars

\* A round after the first ended with fewer candidates and the loop goes on.
C5_Witness ==
  /\ counter >= 2 /\ outcome = "Running" /\ pc = "sweep" /\ i = 0
  /\ prev_status # None
  /\ prev_status[2] < TotalOptions(load_board(puzzle))

(***************************************************************************)
(* C6                                                                      *)
(***************************************************************************)
\* C6: in every reachable state, for every target, applying a rule (direct
\* elimination or hidden single on a square, line/box interaction or naked
\* pair on a cube) twice in a row gives the board the first application gave.
C6_Idempotent ==
  /\ \A p \in Pos :
       /\ direct_elimination(direct_elimination(board, p[1], p[2]), p[1], p[2])
            = direct_elimination(board, p[1], p[2])
       /\ hidden_single(hidden_single(board, p[1], p[2]), p[1], p[2])
            = hidden_single(board, p[1], p[2])
       /\ sweep_square(sweep_square(board, p[1], p[2]), p[1], p[2])
            = sweep_square(board, p[1], p[2])
  /\ \A cube_r, cube_c \in 0..2 :
       /\ find_isolation_lines(find_isolation_lines(board, cube_r, cube_c), cube_r, cube_c)
            = find_isolation_lines(board, cube_r, cube_c)
       /\ find_number_pairs_in_cube(find_number_pairs_in_cube(board, cube_r, cube_c),
                                    cube_r, cube_c)
            = find_number_pairs_in_cube(board, cube_r, cube_c)

\* A state from which line/box interaction on some cube commits a square, and
\* one in which it has changed candidates in the current round.
C6_Witness ==
  /\ touched # {}
  /\ \E cube_r, cube_c \in 0..2 :
       ValuesOf(find_isolation_lines(board, cube_r, cube_c)) # ValuesOf(board)

C8_Sound ==
  /\ \A S \in Completions(puzzle) : \A p \in Pos :
       IF Unassigned(board, p) THEN S[p] \in board[p].options
                               ELSE board[p].value = S[p]
  /\ Completions(puzzle) # {} => NoDuplicates(board)
  /\ Cardinality(Completions(puzzle)) >= 2 => outcome # "Solved"

\* A puzzle with two completions on which solve committed squares and then
\* stalled.
C8_Witness ==
  /\ Cardinality(Completions(puzzle)) = 2
  /\ outcome = "Stalled"
  /\ \E p \in Pos : puzzle[p] = 0 /\ board[p].value # 0

(***************************************************************************)
(* C9                                                                      *)
(***************************************************************************)
\* C9 as claimed: when find_number_pairs_in_cube runs on a cube holding two
\* distinct unassigned squares with the same two candidates, afterwards no
\* other unassigned square of the cube holds either digit, and the two pair
\* squares keep their candidates.
C9_NakedPair ==
  [][pc = "pairs" =>
       LET cube == Box(i \div 3, i % 3) IN
       \A p, q \in cube :
          (/\ p # q
           /\ Unassigned(board, p) /\ Unassigned(board, q)
           /\ Cardinality(board[p].options) = 2
           /\ board[p].options = board[q].options)
          => /\ \A x \in cube \ {p, q} :
                  Unassigned(board, x) => board'[x].options \cap board[p].options = {}
             /\ board'[p].options = board[p].options
             /\ board'[q].options = board[q].options]_vars

(***************************************************************************)
(* C10                                                                     *)
(***************************************************************************)
\* C10 as claimed: no square whose candidates find_isolation_lines changed in
\* the current round is left unassigned holding exactly one candidate, from
\* the moment the rule returns up to and after the end-of-round check_board.
C10_Rechecked ==
  \A p \in touched : ~(Unassigned(board, p) /\ Cardinality(board[p].options) = 1)

=============================================================================
